---- MODULE Spec2Model ----
(***************************************************************************)
(* Model of dtensor-keras-bert.py: a multi-client DTensor training demo.   *)
(* Every client process runs main(); the clients cooperate only through    *)
(* the DTensor collectives.  The model keeps one program counter per       *)
(* client and cuts each function at the points where a client can block    *)
(* on the others (an all-gather needs every client's shard).               *)
(*                                                                         *)
(* Specifications                                                          *)
(*   SpecMain      main() from process start to the partition descriptor   *)
(*   SpecPartition get_pipeline_params over every device placement         *)
(*   SpecConsensus unique_across_clients called repeatedly, any arguments  *)
(*   SpecShard     shard_data applied to arbitrary client-local tensors    *)
(*   SpecRun       main() from process start to the restored checkpoint,   *)
(*                 every interleaving of the clients                       *)
(*   SpecPlacements the same run over every placement of the devices, in   *)
(*                 one order of the clients' local steps                   *)
(*   SpecRunFair   SpecRun's steps with every client scheduled fairly      *)
(***************************************************************************)
EXTENDS Integers, Sequences, FiniteSets, TLC

VARIABLES
  nclients,      \* dtensor.num_clients()
  device_type,   \* args.device_type
  navail,        \* dtensor.num_local_devices(device_type) of each client
  placement,     \* client -> set of global device ids the runtime gives it
  pc,            \* client -> position in the program
  requests,      \* client -> sequence of create_distributed_mesh requests made
  mesh,          \* client -> the compute mesh (local `mesh` of main), or None
  client_mesh,   \* client -> the module global client_mesh, or None
  nbuilds,       \* client -> number of clients meshes constructed so far
  ncalls,        \* client -> number of unique_across_clients calls made
  ngathered,     \* client -> number of relayouts it has completed
  arg,           \* client -> parameter x of its latest unique_across_clients
  shards,        \* client -> the shards it packed that a relayout still needs
  frame,         \* client -> locals of the running get_pipeline_params
  result,        \* client -> last return value of unique_across_clients
  params,        \* client -> pipeline_params of get_dataset, or None
  tensor,        \* client -> argument of its latest shard_data call
  packed,        \* client -> outcome of its latest shard_data call
  calls,         \* client -> the collective calls it has issued, in order
  stdout,        \* client -> the lines its process has printed
  dataset,       \* client -> rng, data arrays and batching of get_dataset
  model,         \* client -> the model's weights and the optimizer's count
  train,         \* client -> locals of train_model
  checkpoint,    \* the checkpoint files written under args.prefix
  cpt            \* client -> the DTensorCheckpoint object and saved_path

vars == <<nclients, device_type, navail, placement, pc, requests, mesh,
          client_mesh, nbuilds, ncalls, ngathered, arg, shards, frame,
          result, params, tensor, packed, calls, stdout, dataset, model,
          train, checkpoint, cpt>>

\* the state of everything main does after get_pipeline_params
trainvars == <<stdout, dataset, model, train, checkpoint, cpt>>

\* python's None for a mesh variable, and the outcome of a mesh
\* construction that raised
NoMesh == [ built |-> FALSE, dims |-> << >>, num_global |-> 0,
           local |-> << >>, serial |-> 0 ]

\* no get_pipeline_params call is running
NoFrame == [ active |-> FALSE, replicas |-> {}, first_replica |-> 0 ]

\* pipeline_params is not assigned yet
NoParams == [ assigned |-> FALSE, input_pipeline_id |-> 0,
             num_input_pipelines |-> 0, num_local_replicas_in_sync |-> 0 ]

\* no shard_data call has been made
NoDTensor == [ status |-> "none", components |-> << >>, rows |-> 0 ]

\* list.index raised ValueError
NotFound == -1

\* the generator of get_dataset: a seed and the number of draws made
NoRng == [ seed |-> 0, drawn |-> 0 ]

\* get_dataset has not made the client's data yet
NoDataset == [ made |-> FALSE, rng |-> NoRng, word_id_data |-> << >>,
              mask_data |-> << >>, type_id_data |-> << >>, labels |-> << >>,
              client_local_batch_size |-> 0 ]

\* get_model has not run yet
NoModel == [ built |-> FALSE, weights |-> << >>, iterations |-> 0 ]

\* no batch has been pulled from the dataset
NoBatch == [ word_id_data |-> << >>, mask_data |-> << >>,
            type_id_data |-> << >>, labels |-> << >> ]

\* the locals of train_model before it is called
NoTrain == [ epoch |-> 0, step |-> 0, total_loss |-> 0, train_losses |-> << >>,
            iterator |-> 0, batch |-> NoBatch,
            d_word_id_data |-> NoDTensor, d_mask_data |-> NoDTensor,
            d_type_id_data |-> NoDTensor, d_labels |-> NoDTensor,
            loss |-> 0, step_losses |-> << >>, nsteps |-> 0,
            scope |-> NoMesh ]

\* no checkpoint path
NoPath == [ prefix |-> "", count |-> 0 ]

\* main has not created the DTensorCheckpoint yet
NoCheckpoint == [ created |-> FALSE, mesh |-> NoMesh, save_counter |-> 0,
                 saved_path |-> NoPath, at_save |-> << >>,
                 restore_arg |-> NoPath, restore_mesh |-> NoMesh ]

-----------------------------------------------------------------------------
(* Program constants *)

BATCH_DIM == "batch"
MODEL_DIM == "model"
BATCH_DIM_SIZE == 4
MODEL_DIM_SIZE == 2
NUM_GLOBAL_DEVICES == 8
NUM_VIRTUAL_CPUS == 8
batch_size == 32
num_classes == 2

\* a mesh_dims whose sizes do not multiply to the 8 devices main declares
mesh_dims_4x4 == << <<BATCH_DIM, BATCH_DIM_SIZE>>, <<MODEL_DIM, BATCH_DIM_SIZE>> >>

\* lines 43-46
mesh_dims == << <<BATCH_DIM, BATCH_DIM_SIZE>>, <<MODEL_DIM, MODEL_DIM_SIZE>> >>

-----------------------------------------------------------------------------
(* Bounds of the model *)

MaxRounds == 2     \* consensus rounds driven in SpecConsensus
MaxValue == 0      \* consensus arguments are drawn from -1..MaxValue
MaxConsensusClients == 4   \* largest client count driven in SpecConsensus
MaxRows == 3       \* row counts of the tensors given to shard_data

-----------------------------------------------------------------------------
(* Sequences and numpy/python helpers *)

Clients == 0 .. (nclients - 1)

Min(S) == CHOOSE x \in S : \A y \in S : x <= y

Range(s) == { s[i] : i \in DOMAIN s }

RECURSIVE SortedSeq(_)
\* python sorted(set): the elements of S in ascending order
SortedSeq(S) ==
  IF S = {} THEN << >>
  ELSE LET m == Min(S) IN << m >> \o SortedSeq(S \ {m})

RECURSIVE Insert(_, _)
Insert(s, x) ==
  IF s = << >> THEN << x >>
  ELSE IF x <= Head(s) THEN << x >> \o s
  ELSE << Head(s) >> \o Insert(Tail(s), x)

RECURSIVE NpSort(_)
\* np.sort of a 1-d array: same elements with multiplicity, ascending
NpSort(s) ==
  IF s = << >> THEN << >> ELSE Insert(NpSort(Tail(s)), Head(s))

RECURSIVE Dedup(_)
\* drops every element equal to its predecessor
Dedup(s) ==
  IF Len(s) <= 1 THEN s
  ELSE IF s[1] = s[2] THEN Dedup(Tail(s))
  ELSE << s[1] >> \o Dedup(Tail(s))

\* np.unique of a 1-d array: sorts, then keeps one of each run of equals
NpUnique(s) ==
  CHOOSE unique \in { Dedup(sorted) : sorted \in { NpSort(s) } } : TRUE

\* list.index counted from one
ListIndexOneBased(s, x) ==
  IF \E i \in DOMAIN s : s[i] = x
  THEN Min({ i \in DOMAIN s : s[i] = x })
  ELSE NotFound

\* list.index(x), 0-based
ListIndex(s, x) ==
  IF \E i \in DOMAIN s : s[i] = x
  THEN Min({ i \in DOMAIN s : s[i] = x }) - 1
  ELSE NotFound

RECURSIVE Product(_)
Product(dims) ==
  IF dims = << >> THEN 1 ELSE Head(dims)[2] * Product(Tail(dims))

-----------------------------------------------------------------------------
(* The DTensor mesh *)

Devices == 0 .. (NUM_GLOBAL_DEVICES - 1)

\* coordinate of global device d along the j-th dimension of dims: global
\* device ids are laid out over the dimensions in row-major order
Coord(dims, d, j) ==
  (d \div Product(SubSeq(dims, j + 1, Len(dims)))) % dims[j][2]

\* one entry of mesh.local_device_locations(): dimension name -> coordinate
DeviceLocation(dims, d) ==
  [ name \in { dims[j][1] : j \in DOMAIN dims } |->
      LET j == CHOOSE k \in DOMAIN dims : dims[k][1] = name
      IN Coord(dims, d, j) ]

\* mesh.local_device_locations(): one entry per local device, in the
\* mesh's local device order
local_device_locations(m) ==
  [ i \in DOMAIN m.local |-> DeviceLocation(m.dims, m.local[i]) ]

\* mesh.dim_size(name)
dim_size(m, name) ==
  LET j == CHOOSE k \in DOMAIN m.dims : m.dims[k][1] = name
  IN m.dims[j][2]

\* dtensor.create_distributed_mesh(dims, device_type, num_global_devices) on
\* a client that has `avail` devices of the type and is given the devices
\* `mine`: the mesh, or NoMesh when the construction fails.  The function is
\* the DTensor runtime's; its failure rule is the Mesh Builder contract of
\* the specification: the sizes must multiply to the declared device count,
\* and the clients must have the devices to cover it in equal shares.
CreateDistributedMesh(dims, declared, avail, mine) ==
  IF /\ Product(dims) = declared
     /\ declared % nclients = 0
     /\ avail >= declared \div nclients
  THEN [ built |-> TRUE, dims |-> dims, num_global |-> declared,
         local |-> SortedSeq(mine), serial |-> 1 ]
  ELSE NoMesh

\* configure_virtual_cpus(8 // num_clients): logical CPUs of one client
VirtualCpus == NUM_VIRTUAL_CPUS \div nclients

RECURSIVE Blocks(_, _)
\* the ways to cut the device set S into blocks of k devices, the blocks
\* listed by their smallest device
Blocks(S, k) ==
  IF S = {} THEN { << >> }
  ELSE LET m == Min(S)
       IN UNION { { << B >> \o rest : rest \in Blocks(S \ B, k) } :
                  B \in { X \in SUBSET S : m \in X /\ Cardinality(X) = k } }

\* every placement of the mesh's devices on n clients with equally many
\* devices each, up to renaming the clients other than client 0 (the leader)
Placements(n) ==
  LET k == NUM_GLOBAL_DEVICES \div n
  IN UNION { { [ c \in 0 .. (n - 1) |-> IF c = 0 THEN L ELSE rest[c] ] :
               rest \in Blocks(Devices \ L, k) } :
             L \in { X \in SUBSET Devices : Cardinality(X) = k } }

\* the client counts for which the 8 devices split evenly
EvenClientCounts == { n \in 1 .. NUM_VIRTUAL_CPUS : NUM_GLOBAL_DEVICES % n = 0 }

\* the placement the runtime makes when it hands out the global device ids
\* in consecutive blocks, one block per client
ConsecutivePlacement(n) ==
  LET k == NUM_GLOBAL_DEVICES \div n
  IN [ c \in 0 .. (n - 1) |-> { d \in Devices : d \div k = c } ]

-----------------------------------------------------------------------------
(* unique_across_clients *)

\* the request unique_across_clients makes for the clients mesh
ClientMeshDims == << <<"clients", nclients>> >>

\* line 92: dtensor.pack of [x] as the client's shard for round k
Pack(mine, k, x) == Append(mine, [round |-> k, value |-> x])

\* the value a client packed for round k
ShardOf(c, k) ==
  (CHOOSE sh \in Range(shards[c]) : sh.round = k).value

\* the shards of a client once round k is complete everywhere
RECURSIVE Release(_, _)
Release(mine, k) ==
  IF mine = << >> THEN << >>
  ELSE IF Head(mine).round = k THEN Release(Tail(mine), k)
  ELSE << Head(mine) >> \o Release(Tail(mine), k)

\* line 86 with the guard dropped: every call constructs
ClientMeshNeverCached(c) == TRUE

\* line 86 with the construction left to the leader: the other clients
\* take the mesh to be there
ClientMeshIsNoneOnLeader(c) == c = 0 /\ ~ client_mesh[c].built

\* line 86: the guard of the lazy construction
ClientMeshIsNone(c) == ~ client_mesh[c].built

\* lines 87-90: the mesh object a construction by client c yields now; the
\* serial tells one constructed object from the next
NewClientMesh(c) ==
  LET built == CreateDistributedMesh(ClientMeshDims, nclients,
                                     VirtualCpus, {c})
  IN IF built.built THEN [ built EXCEPT !.serial = nbuilds[c] + 1 ]
     ELSE built

\* the collective calls one unique_across_clients call issues: the build of
\* the clients mesh when there is none yet (line 87), then, unless the build
\* raised, the pack and relayout of the consensus (lines 92-95)
CollectivesOfConsensus(c) ==
  IF ~ ClientMeshIsNone(c) THEN << "consensus" >>
  ELSE IF NewClientMesh(c).built THEN << "clients_mesh", "consensus" >>
  ELSE << "clients_mesh" >>

\* lines 85-93: build the clients mesh on first use, then pack [x] as this
\* client's shard of a tensor sharded over "clients".  Leaves the client
\* waiting in relayout, or failed when the mesh cannot be built.
UniqueAcrossClientsEnter(c, x) ==
  /\ ncalls' = [ncalls EXCEPT ![c] = @ + 1]
  /\ calls' = [calls EXCEPT ![c] = @ \o CollectivesOfConsensus(c)]
  /\ arg' = [arg EXCEPT ![c] = x]
  /\ IF ClientMeshIsNone(c)
     THEN /\ requests' = [requests EXCEPT
                            ![c] = Append(@, [dims |-> ClientMeshDims,
                                              declared |-> nclients])]
          /\ IF ~ NewClientMesh(c).built
             THEN /\ pc' = [pc EXCEPT ![c] = "failed"]
                  /\ UNCHANGED <<client_mesh, nbuilds, shards>>
             ELSE /\ client_mesh' = [client_mesh EXCEPT
                                       ![c] = NewClientMesh(c)]
                  /\ nbuilds' = [nbuilds EXCEPT ![c] = @ + 1]
                  /\ shards' = [shards EXCEPT
                                  ![c] = Pack(@, ncalls[c] + 1, x)]
                  /\ pc' = [pc EXCEPT ![c] = "uac_relayout"]
     ELSE /\ shards' = [shards EXCEPT ![c] = Pack(@, ncalls[c] + 1, x)]
          /\ pc' = [pc EXCEPT ![c] = "uac_relayout"]
          /\ UNCHANGED <<requests, client_mesh, nbuilds>>

\* the fully replicated tensor of round k: every client's shard, in the
\* order of the clients mesh
Replicated(k) == [ i \in 1 .. nclients |-> ShardOf(i - 1, k) ]

\* lines 96-98 without the np.unique
SortedOnly(replicated) == NpSort(replicated)

\* lines 96-98 applied to the replicated array
UniqueSorted(replicated) ==
  CHOOSE sorted \in { NpSort(unique) : unique \in { NpUnique(replicated) } } :
    TRUE

\* lines 94-98: relayout to a replicated tensor (an all-gather: it needs the
\* shard of every client for this round), then unique, sort and return
UniqueAcrossClientsRelayout(c) ==
  /\ pc[c] = "uac_relayout"
  /\ LET k == ncalls[c] IN
     /\ \A c2 \in Clients : \E sh \in Range(shards[c2]) : sh.round = k
     /\ \E replicated \in { Replicated(k) } :
          result' = [result EXCEPT ![c] = UniqueSorted(replicated)]
     /\ ngathered' = [ngathered EXCEPT ![c] = k]
     /\ shards' = IF \A c2 \in Clients \ {c} : ngathered[c2] >= k
                  THEN [ c2 \in Clients |-> Release(shards[c2], k) ]
                  ELSE shards
  /\ pc' = [pc EXCEPT ![c] = "uac_return"]
  /\ UNCHANGED <<nclients, device_type, navail, placement, requests, mesh,
                 client_mesh, nbuilds, ncalls, arg, frame, params, tensor,
                 packed,
                 calls, trainvars>>

-----------------------------------------------------------------------------
(* get_dataset: get_pipeline_params *)

\* lines 111-113: the batch coordinates of the local devices
LocalReplicas(m) ==
  { local_device_locations(m)[i][BATCH_DIM] :
      i \in DOMAIN local_device_locations(m) }

\* line 114
FirstReplica(m) == Min(LocalReplicas(m))

\* lines 111-115 with the consensus made by the leader alone: every other
\* client takes its own first replica for the whole list
GetPipelineParamsCallLeaderOnly(c) ==
  /\ pc[c] = "get_dataset"
  /\ IF c = 0
     THEN /\ frame' = [frame EXCEPT
                         ![c] = [active |-> TRUE,
                                 replicas |-> LocalReplicas(mesh[c]),
                                 first_replica |-> FirstReplica(mesh[c])]]
          /\ UniqueAcrossClientsEnter(c, FirstReplica(mesh[c]))
          /\ UNCHANGED params
     ELSE /\ params' = [params EXCEPT
                          ![c] = [ assigned |-> TRUE,
                                   input_pipeline_id |-> 0,
                                   num_input_pipelines |-> 1,
                                   num_local_replicas_in_sync |->
                                     Cardinality(LocalReplicas(mesh[c])) ]]
          /\ pc' = [pc EXCEPT ![c] = "make_dataset"]
          /\ UNCHANGED <<frame, ncalls, calls, arg, requests, client_mesh,
                         nbuilds, shards>>
  /\ UNCHANGED <<nclients, device_type, navail, placement, mesh, ngathered,
                 result, tensor, packed, trainvars>>

\* lines 111-115: collect the local replicas and enter the consensus
GetPipelineParamsCall(c) ==
  /\ pc[c] = "get_dataset"
  /\ frame' = [frame EXCEPT
                 ![c] = [active |-> TRUE,
                         replicas |-> LocalReplicas(mesh[c]),
                         first_replica |-> FirstReplica(mesh[c])]]
  /\ UniqueAcrossClientsEnter(c, FirstReplica(mesh[c]))
  /\ UNCHANGED <<nclients, device_type, navail, placement, mesh, ngathered,
                 result, params, tensor, packed,
                 trainvars>>

\* lines 116-120 with the representative itself taken as the id
PipelineParamsRawId(first_replicas, first_replica, replicas) ==
  [ assigned |-> TRUE,
    input_pipeline_id |-> first_replica,
    num_input_pipelines |-> Len(first_replicas),
    num_local_replicas_in_sync |-> Cardinality(replicas) ]

\* lines 116-120 with the two counts mixed up
PipelineParamsSwappedCounts(first_replicas, first_replica, replicas) ==
  [ assigned |-> TRUE,
    input_pipeline_id |-> ListIndex(first_replicas, first_replica),
    num_input_pipelines |-> Cardinality(replicas),
    num_local_replicas_in_sync |-> Len(first_replicas) ]

\* lines 116-120: the dict get_pipeline_params returns
PipelineParams(first_replicas, first_replica, replicas) ==
  [ assigned |-> TRUE,
    input_pipeline_id |-> ListIndex(first_replicas, first_replica),
    num_input_pipelines |-> Len(first_replicas),
    num_local_replicas_in_sync |-> Cardinality(replicas) ]

\* lines 116-122: back from the consensus, build pipeline_params
GetPipelineParamsReturn(c) ==
  /\ pc[c] = "uac_return"
  /\ frame[c].active
  /\ IF ListIndex(result[c], frame[c].first_replica) = NotFound
     THEN /\ pc' = [pc EXCEPT ![c] = "failed"]
          /\ UNCHANGED params
     ELSE /\ params' = [params EXCEPT
                          ![c] = PipelineParams(result[c],
                                                frame[c].first_replica,
                                                frame[c].replicas)]
          /\ pc' = [pc EXCEPT ![c] = "make_dataset"]
  /\ frame' = [frame EXCEPT ![c] = NoFrame]
  /\ UNCHANGED <<nclients, device_type, navail, placement, requests, mesh,
                 client_mesh, nbuilds, ncalls, ngathered, arg, shards, result,
                 tensor, packed,
                 calls, trainvars>>

-----------------------------------------------------------------------------
(* main *)

\* lines 261-280: bootstrap and construction of the compute mesh
MainCreateMesh(c) ==
  /\ pc[c] = "start"
  /\ calls' = [calls EXCEPT ![c] = Append(@, "mesh")]
  /\ requests' = [requests EXCEPT
                    ![c] = Append(@, [dims |-> mesh_dims,
                                      declared |-> NUM_GLOBAL_DEVICES])]
  /\ LET built == CreateDistributedMesh(mesh_dims, NUM_GLOBAL_DEVICES,
                                        navail, placement[c])
     IN IF ~ built.built
        THEN /\ pc' = [pc EXCEPT ![c] = "failed"]
             /\ UNCHANGED mesh
        ELSE /\ mesh' = [mesh EXCEPT ![c] = built]
             /\ pc' = [pc EXCEPT ![c] = "get_dataset"]
  /\ UNCHANGED <<nclients, device_type, navail, placement, client_mesh,
                 nbuilds, ncalls, ngathered, arg, shards, frame, result,
                 params, tensor, packed,
                 trainvars>>

\* dtensor.num_local_devices(device_type): the virtual CPUs main configures,
\* or however many GPUs the host has
LocalDeviceCounts(n, type) ==
  IF type = "CPU" THEN { NUM_VIRTUAL_CPUS \div n }
  ELSE 0 .. NUM_GLOBAL_DEVICES

\* nothing of get_dataset's data, the model, the training or the checkpoint
\* exists yet
FreshTraining ==
  /\ stdout = [ c \in Clients |-> << >> ]
  /\ dataset = [ c \in Clients |-> NoDataset ]
  /\ model = [ c \in Clients |-> NoModel ]
  /\ train = [ c \in Clients |-> NoTrain ]
  /\ checkpoint = { }
  /\ cpt = [ c \in Clients |-> NoCheckpoint ]

\* the process-local state of every client when its process starts
Fresh ==
  /\ requests = [ c \in Clients |-> << >> ]
  /\ mesh = [ c \in Clients |-> NoMesh ]
  /\ client_mesh = [ c \in Clients |-> NoMesh ]
  /\ nbuilds = [ c \in Clients |-> 0 ]
  /\ ncalls = [ c \in Clients |-> 0 ]
  /\ ngathered = [ c \in Clients |-> 0 ]
  /\ arg = [ c \in Clients |-> 0 ]
  /\ shards = [ c \in Clients |-> << >> ]
  /\ frame = [ c \in Clients |-> NoFrame ]
  /\ result = [ c \in Clients |-> << >> ]
  /\ params = [ c \in Clients |-> NoParams ]
  /\ tensor = [ c \in Clients |-> << >> ]
  /\ packed = [ c \in Clients |-> NoDTensor ]
  /\ calls = [ c \in Clients |-> << >> ]
  /\ FreshTraining

InitMain ==
  /\ nclients \in 1 .. NUM_VIRTUAL_CPUS
  /\ device_type \in { "GPU", "CPU" }
  /\ navail \in LocalDeviceCounts(nclients, device_type)
  /\ placement = ConsecutivePlacement(nclients)
  /\ pc = [ c \in Clients |-> "start" ]
  /\ Fresh

NextMain ==
  \/ \E c \in Clients : MainCreateMesh(c)
  \/ \E c \in Clients : GetPipelineParamsCall(c)
  \/ \E c \in Clients : UniqueAcrossClientsRelayout(c)
  \/ \E c \in Clients : GetPipelineParamsReturn(c)

SpecMain == InitMain /\ [][NextMain]_vars

-----------------------------------------------------------------------------
(* get_pipeline_params over every placement of the devices *)

\* every client has constructed the compute mesh (main, line 275) and is
\* about to call get_dataset
InitPartition ==
  /\ nclients \in EvenClientCounts
  /\ device_type = "CPU"
  /\ navail = VirtualCpus
  /\ placement \in Placements(nclients)
  /\ pc = [ c \in Clients |-> "get_dataset" ]
  /\ requests = [ c \in Clients |->
                    << [dims |-> mesh_dims,
                        declared |-> NUM_GLOBAL_DEVICES] >> ]
  /\ mesh = [ c \in Clients |->
                CreateDistributedMesh(mesh_dims, NUM_GLOBAL_DEVICES,
                                      navail, placement[c]) ]
  /\ client_mesh = [ c \in Clients |-> NoMesh ]
  /\ nbuilds = [ c \in Clients |-> 0 ]
  /\ ncalls = [ c \in Clients |-> 0 ]
  /\ ngathered = [ c \in Clients |-> 0 ]
  /\ arg = [ c \in Clients |-> 0 ]
  /\ shards = [ c \in Clients |-> << >> ]
  /\ frame = [ c \in Clients |-> NoFrame ]
  /\ result = [ c \in Clients |-> << >> ]
  /\ params = [ c \in Clients |-> NoParams ]
  /\ tensor = [ c \in Clients |-> << >> ]
  /\ packed = [ c \in Clients |-> NoDTensor ]
  /\ calls = [ c \in Clients |-> << "mesh" >> ]
  /\ FreshTraining

NextPartition ==
  \/ \E c \in Clients : GetPipelineParamsCall(c)
  \/ \E c \in Clients : UniqueAcrossClientsRelayout(c)
  \/ \E c \in Clients : GetPipelineParamsReturn(c)

SpecPartition == InitPartition /\ [][NextPartition]_vars

-----------------------------------------------------------------------------
(* Properties of the partition descriptor (SpecPartition) *)

\* the batch coordinates of the devices placed on client c, read off the
\* placement: device d of the 4x2 mesh sits in batch row d \div 2
BatchCoordsOf(c) == { d \div MODEL_DIM_SIZE : d \in placement[c] }

\* the representative of client c: its smallest batch coordinate
RepresentativeOf(c) == Min(BatchCoordsOf(c))

Representatives == { RepresentativeOf(c) : c \in Clients }

AllAssigned == \A c \in Clients : params[c].assigned

PipelineIds == { params[c].input_pipeline_id : c \in Clients }

\* C1 as stated: once every client has its pipeline params, the
\* input_pipeline_id values are pairwise distinct and form exactly
\* 0..num_input_pipelines-1, whatever the placement of the devices
C1_DistinctPermutation ==
  AllAssigned =>
    /\ \A c, c2 \in Clients :
         c # c2 => params[c].input_pipeline_id # params[c2].input_pipeline_id
    /\ \A c \in Clients :
         PipelineIds = 0 .. (params[c].num_input_pipelines - 1)

\* C1 amended: once every client has its pipeline params, the ids form
\* exactly 0..num_input_pipelines-1, and two clients have the same id exactly
\* when they have the same smallest local batch coordinate (so the ids are
\* pairwise distinct exactly when the representatives are)
C1_DensePerRepresentative ==
  AllAssigned =>
    /\ \A c \in Clients :
         PipelineIds = 0 .. (params[c].num_input_pipelines - 1)
    /\ \A c, c2 \in Clients :
         (params[c].input_pipeline_id = params[c2].input_pipeline_id)
           <=> (RepresentativeOf(c) = RepresentativeOf(c2))

\* C1 witness: all clients are done, some two share an id and some two do not
C1_Witness ==
  /\ AllAssigned
  /\ \E c, c2 \in Clients :
       c # c2 /\ params[c].input_pipeline_id = params[c2].input_pipeline_id
  /\ \E c, c2 \in Clients :
       params[c].input_pipeline_id # params[c2].input_pipeline_id

\* C2: num_input_pipelines is the same on every client that has its params
\* and equals the number of distinct representatives over all clients
C2_SameCount ==
  \A c \in Clients :
    params[c].assigned =>
      /\ params[c].num_input_pipelines = Cardinality(Representatives)
      /\ \A c2 \in Clients :
           params[c2].assigned =>
             params[c2].num_input_pipelines = params[c].num_input_pipelines

\* C2 witness: eight clients are done and count four pipelines
C2_Witness ==
  /\ AllAssigned
  /\ nclients = 8
  /\ \A c \in Clients : params[c].num_input_pipelines = 4

\* the smallest batch coordinates of all clients, one entry per client, in
\* ascending order
AscendingRepresentatives ==
  NpSort([ i \in 1 .. nclients |-> RepresentativeOf(i - 1) ])

\* the placement of the spec's scenario: two clients with four devices
\* each, batch coordinates {0,1} and {2,3}
TwoClientScenario ==
  /\ nclients = 2
  /\ BatchCoordsOf(0) = {0, 1}
  /\ BatchCoordsOf(1) = {2, 3}

\* C3 as stated: input_pipeline_id is the index of the client's smallest
\* batch coordinate in the ascending list of all clients' smallest batch
\* coordinates, and num_local_replicas_in_sync is the number of distinct
\* local batch coordinates
C3_IndexInListOfAll ==
  \A c \in Clients :
    params[c].assigned =>
      /\ params[c].input_pipeline_id =
           Min({ i \in 1 .. nclients :
                   AscendingRepresentatives[i] = RepresentativeOf(c) }) - 1
      /\ params[c].num_local_replicas_in_sync = Cardinality(BatchCoordsOf(c))

\* C3 amended: input_pipeline_id is the rank of the client's smallest batch
\* coordinate among the distinct smallest batch coordinates of all clients
\* (the number of distinct representatives below it), and
\* num_local_replicas_in_sync is the number of distinct local batch
\* coordinates; clients owning {0,1} and {2,3} get ids 0 and 1, count 2 and
\* local replica count 2 each
C3_RankAmongDistinct ==
  /\ \A c \in Clients :
       params[c].assigned =>
         /\ params[c].input_pipeline_id =
              Cardinality({ v \in Representatives : v < RepresentativeOf(c) })
         /\ params[c].num_local_replicas_in_sync =
              Cardinality(BatchCoordsOf(c))
  /\ (TwoClientScenario /\ AllAssigned) =>
       /\ params[0] = [ assigned |-> TRUE, input_pipeline_id |-> 0,
                        num_input_pipelines |-> 2,
                        num_local_replicas_in_sync |-> 2 ]
       /\ params[1] = [ assigned |-> TRUE, input_pipeline_id |-> 1,
                        num_input_pipelines |-> 2,
                        num_local_replicas_in_sync |-> 2 ]

\* C3 witness: the two-client scenario with both descriptors computed
C3_Witness == TwoClientScenario /\ AllAssigned

-----------------------------------------------------------------------------
(* unique_across_clients called round after round with any arguments *)

\* the arguments the clients pass
ConsensusValues == -1 .. MaxValue

\* a client calls unique_across_clients(x), lines 83-93
ConsensusCall(c) ==
  /\ pc[c] = "idle"
  /\ ncalls[c] < MaxRounds
  /\ \E x \in ConsensusValues : UniqueAcrossClientsEnter(c, x)
  /\ UNCHANGED <<nclients, device_type, navail, placement, mesh, ngathered,
                 frame, result, params, tensor, packed,
                 trainvars>>

\* the caller has the returned list, line 98
ConsensusReturn(c) ==
  /\ pc[c] = "uac_return"
  /\ ~ frame[c].active
  /\ pc' = [pc EXCEPT ![c] = "idle"]
  /\ UNCHANGED <<nclients, device_type, navail, placement, requests, mesh,
                 client_mesh, nbuilds, ncalls, ngathered, arg, shards, frame,
                 result, params, tensor, packed,
                 calls, trainvars>>

InitConsensus ==
  /\ nclients \in { n \in EvenClientCounts : n <= MaxConsensusClients }
  /\ device_type = "CPU"
  /\ navail = VirtualCpus
  /\ placement = ConsecutivePlacement(nclients)
  /\ pc = [ c \in Clients |-> "idle" ]
  /\ requests = [ c \in Clients |->
                    << [dims |-> mesh_dims,
                        declared |-> NUM_GLOBAL_DEVICES] >> ]
  /\ mesh = [ c \in Clients |->
                CreateDistributedMesh(mesh_dims, NUM_GLOBAL_DEVICES,
                                      navail, placement[c]) ]
  /\ client_mesh = [ c \in Clients |-> NoMesh ]
  /\ nbuilds = [ c \in Clients |-> 0 ]
  /\ ncalls = [ c \in Clients |-> 0 ]
  /\ ngathered = [ c \in Clients |-> 0 ]
  /\ arg = [ c \in Clients |-> 0 ]
  /\ shards = [ c \in Clients |-> << >> ]
  /\ frame = [ c \in Clients |-> NoFrame ]
  /\ result = [ c \in Clients |-> << >> ]
  /\ params = [ c \in Clients |-> NoParams ]
  /\ tensor = [ c \in Clients |-> << >> ]
  /\ packed = [ c \in Clients |-> NoDTensor ]
  /\ calls = [ c \in Clients |-> << "mesh" >> ]
  /\ FreshTraining

NextConsensus ==
  \/ \E c \in Clients : ConsensusCall(c)
  \/ \E c \in Clients : UniqueAcrossClientsRelayout(c)
  \/ \E c \in Clients : ConsensusReturn(c)

SpecConsensus == InitConsensus /\ [][NextConsensus]_vars

-----------------------------------------------------------------------------
(* Properties of unique_across_clients (SpecConsensus) *)

\* client c holds the list its round-k call returned
HoldsRound(c, k) == k >= 1 /\ ngathered[c] = k

\* C4: when every client calls unique_across_clients in the same round,
\* each with its own x, every client gets the same list: strictly
\* ascending, without duplicates, holding exactly the values passed
C4_SameSortedSet ==
  \A c \in Clients :
    ngathered[c] >= 1 =>
      /\ \A i, j \in DOMAIN result[c] : i < j => result[c][i] < result[c][j]
      /\ \A c2 \in Clients :
           /\ HoldsRound(c2, ngathered[c]) => result[c2] = result[c]
           /\ ncalls[c2] = ngathered[c] => arg[c2] \in Range(result[c])
      /\ (\A c2 \in Clients : ncalls[c2] = ngathered[c]) =>
           Range(result[c]) = { arg[c2] : c2 \in Clients }

\* C4 witness: four clients hold the result of their second round, passed
\* out of order and with repeats, and it has two elements
C4_Witness ==
  /\ nclients = 4
  /\ \A c \in Clients : ncalls[c] = 2 /\ ngathered[c] = 2
  /\ arg[0] > arg[1]
  /\ arg[2] = arg[0]
  /\ Len(result[3]) = 2

\* C10: in one client process the clients mesh is constructed at most once;
\* the first unique_across_clients call constructs it, every later call
\* uses the same object, and once client_mesh is set it never changes
C10_BuiltOnce ==
  /\ [] (\A c \in Clients :
           /\ nbuilds[c] <= 1
           /\ (ncalls[c] >= 1 /\ pc[c] # "failed") =>
                (client_mesh[c].built /\ nbuilds[c] = 1))
  /\ [] [ \A c \in Clients :
            client_mesh[c].built =>
              (client_mesh'[c] = client_mesh[c] /\ nbuilds'[c] = nbuilds[c])
        ]_vars

\* C10 witness: a client is in its second call with the mesh of the first
C10_Witness ==
  \E c \in Clients :
    /\ ncalls[c] = 2
    /\ nbuilds[c] = 1
    /\ client_mesh[c].built
    /\ client_mesh[c].serial = 1

-----------------------------------------------------------------------------
(* get_dataset: shard_data *)

\* tf.split(tensor, n, axis=0) that cuts what is left over instead of raising
TfSplitFloor(t, n) ==
  LET size == Len(t) \div n
  IN [ ok |-> TRUE,
       slices |-> [ k \in 1 .. n |->
                      SubSeq(t, (k - 1) * size + 1, k * size) ] ]

\* line 154, tf.split(tensor, n, axis=0): n contiguous slices of equal size;
\* it raises when n does not divide the number of rows
TfSplit(t, n) ==
  IF Len(t) % n # 0
  THEN [ ok |-> FALSE, slices |-> << >> ]
  ELSE LET size == Len(t) \div n
       IN [ ok |-> TRUE,
            slices |-> [ k \in 1 .. n |->
                           SubSeq(t, (k - 1) * size + 1, k * size) ] ]

\* lines 148-151 enumerating the replicas in descending order
ReplicaToSliceDescending(replicas) ==
  [ r \in replicas |-> Cardinality({ v \in replicas : v > r }) ]

\* lines 148-151, replica_to_slice: replica id -> its position (0-based) in
\* sorted(replicas)
ReplicaToSlice(replicas) ==
  [ r \in replicas |-> ListIndex(SortedSeq(replicas), r) ]

\* lines 157-161 appending one component per replica, not per device
ShardDataPerReplica(m, t) ==
  LET locations == local_device_locations(m)
      replicas == { locations[i][BATCH_DIM] : i \in DOMAIN locations }
      split == TfSplit(t, Cardinality(replicas))
  IN IF ~ split.ok
     THEN [ status |-> "error", components |-> << >>, rows |-> 0 ]
     ELSE [ status |-> "ok", components |-> split.slices,
            rows |-> Len(split.slices[1]) * dim_size(m, BATCH_DIM) ]

\* lines 156-162: find the slice of each local device, then pack the
\* components
PackComponents(m, locations, replica_to_slice, split) ==
  LET components ==
        [ i \in DOMAIN locations |->
            split.slices[replica_to_slice[locations[i][BATCH_DIM]] + 1] ]
  IN IF ~ split.ok
     THEN [ status |-> "error", components |-> << >>, rows |-> 0 ]
     ELSE [ status |-> "ok", components |-> components,
            rows |-> Len(components[1]) * dim_size(m, BATCH_DIM) ]

\* lines 140-162, shard_data(tensor): the DTensor packed from one component
\* per local device, or the failure of tf.split.  The locations, the
\* replicas, the table and the slices are each computed once, as in the code.
ShardData(m, t) ==
  CHOOSE out \in
    UNION { UNION { { PackComponents(m, locations, replica_to_slice, split) :
                        replica_to_slice \in { ReplicaToSlice(replicas) },
                        split \in { TfSplit(t, Cardinality(replicas)) } } :
                    replicas \in { { locations[i][BATCH_DIM] :
                                       i \in DOMAIN locations } } } :
            locations \in { local_device_locations(m) } } : TRUE

-----------------------------------------------------------------------------
(* shard_data applied to arbitrary client-local tensors *)

\* what a row holds: a label, as in `labels` (line 130)
Cells == 0 .. (num_classes - 1)

\* a client-local batch of batch_size rows
FullBatch == [ i \in 1 .. batch_size |-> (i \div 3) % num_classes ]

\* the tensors handed to shard_data: every tensor of up to MaxRows rows, and
\* one batch of batch_size rows
Tensors ==
  UNION { [ 1 .. n -> Cells ] : n \in 0 .. MaxRows } \cup { FullBatch }

\* a client calls pack_fn(t).  Clients do not interact in shard_data, so the
\* specification follows the calls of one client at a time.
ShardDataCall(c) ==
  /\ pc[c] = "make_dataset"
  /\ \A c2 \in Clients \ {c} : packed[c2].status = "none"
  /\ \E t \in Tensors :
       LET out == ShardData(mesh[c], t) IN
       /\ tensor' = [tensor EXCEPT ![c] = t]
       /\ packed' = [packed EXCEPT ![c] = out]
       /\ pc' = [pc EXCEPT
                   ![c] = IF out.status = "error" THEN "failed" ELSE @]
  /\ UNCHANGED <<nclients, device_type, navail, placement, requests, mesh,
                 client_mesh, nbuilds, ncalls, ngathered, arg, shards, frame,
                 result, params,
                 calls, trainvars>>

\* every client has the compute mesh and the pack function of get_dataset
InitShard ==
  /\ nclients \in EvenClientCounts
  /\ device_type = "CPU"
  /\ navail = VirtualCpus
  /\ placement \in Placements(nclients)
  /\ pc = [ c \in Clients |-> "make_dataset" ]
  /\ requests = [ c \in Clients |->
                    << [dims |-> mesh_dims,
                        declared |-> NUM_GLOBAL_DEVICES] >> ]
  /\ mesh = [ c \in Clients |->
                CreateDistributedMesh(mesh_dims, NUM_GLOBAL_DEVICES,
                                      navail, placement[c]) ]
  /\ client_mesh = [ c \in Clients |-> NoMesh ]
  /\ nbuilds = [ c \in Clients |-> 0 ]
  /\ ncalls = [ c \in Clients |-> 0 ]
  /\ ngathered = [ c \in Clients |-> 0 ]
  /\ arg = [ c \in Clients |-> 0 ]
  /\ shards = [ c \in Clients |-> << >> ]
  /\ frame = [ c \in Clients |-> NoFrame ]
  /\ result = [ c \in Clients |-> << >> ]
  /\ params = [ c \in Clients |-> NoParams ]
  /\ tensor = [ c \in Clients |-> << >> ]
  /\ packed = [ c \in Clients |-> NoDTensor ]
  /\ calls = [ c \in Clients |-> << "mesh" >> ]
  /\ FreshTraining

NextShard == \E c \in Clients : ShardDataCall(c)

SpecShard == InitShard /\ [][NextShard]_vars

-----------------------------------------------------------------------------
(* Properties of shard_data (SpecShard) *)

\* the local devices of client c in the mesh's local device order
LocalDevices(c) == mesh[c].local

\* the batch coordinate of the i-th local device of client c
BatchCoordAt(c, i) == LocalDevices(c)[i] \div MODEL_DIM_SIZE

\* R: the number of distinct batch coordinates among c's local devices
ReplicaCount(c) == Cardinality(BatchCoordsOf(c))

\* client c has called shard_data
Called(c) == packed[c].status # "none"

RECURSIVE Concat(_)
\* tf.concat(parts, axis=0)
Concat(parts) ==
  IF parts = << >> THEN << >> ELSE Head(parts) \o Concat(Tail(parts))

\* the ways to pick one local device (by position) per batch coordinate
Representing(c) ==
  { f \in [ BatchCoordsOf(c) -> DOMAIN LocalDevices(c) ] :
      \A v \in BatchCoordsOf(c) : BatchCoordAt(c, f[v]) = v }

\* C5: for a tensor whose row count R divides, the components of one device
\* per distinct local batch coordinate, concatenated along axis 0 in
\* ascending order of the coordinate, are the input tensor again
C5_RoundTrip ==
  \A c \in Clients :
    (Called(c) /\ Len(tensor[c]) % ReplicaCount(c) = 0) =>
      /\ packed[c].status = "ok"
      /\ \A f \in Representing(c) :
           LET coords == SortedSeq(BatchCoordsOf(c))
           IN Concat([ k \in DOMAIN coords |->
                         packed[c].components[f[coords[k]]] ]) = tensor[c]

\* C5 witness: a tensor of non-constant rows, several rows per slice, was
\* packed by a client that has two devices in one replica
C5_Witness ==
  \E c \in Clients :
    /\ packed[c].status = "ok"
    /\ ReplicaCount(c) >= 2
    /\ Len(tensor[c]) >= 2 * ReplicaCount(c)
    /\ tensor[c][1] # tensor[c][3]
    /\ Len(LocalDevices(c)) > ReplicaCount(c)

\* C6: shard_data fails, and yields no distributed tensor, whenever R does
\* not divide the row count of the input
C6_RejectsIndivisible ==
  \A c \in Clients :
    (Called(c) /\ Len(tensor[c]) % ReplicaCount(c) # 0) =>
      /\ packed[c].status = "error"
      /\ packed[c].components = << >>
      /\ pc[c] = "failed"

\* C6 witness: a call with three rows on a client with two replicas
C6_Witness ==
  \E c \in Clients :
    /\ Called(c)
    /\ ReplicaCount(c) = 2
    /\ Len(tensor[c]) = 3

\* the slice of the input that belongs to the i-th local device: slice
\* number = sorted rank of the device's batch coordinate
SliceNumber(c, i) ==
  Cardinality({ v \in BatchCoordsOf(c) : v < BatchCoordAt(c, i) })

ExpectedComponent(c, i) ==
  LET size == Len(tensor[c]) \div ReplicaCount(c)
  IN SubSeq(tensor[c], SliceNumber(c, i) * size + 1,
            (SliceNumber(c, i) + 1) * size)

\* one component per local device, in local device order, each the slice of
\* rows/R rows at the sorted rank of the device's batch coordinate
ComponentsAreRankedSlices(c) ==
  /\ Len(packed[c].components) = Len(LocalDevices(c))
  /\ \A i \in DOMAIN LocalDevices(c) :
       /\ Len(packed[c].components[i]) * ReplicaCount(c) = Len(tensor[c])
       /\ packed[c].components[i] = ExpectedComponent(c, i)

\* the whole 4x2 mesh on one client, given a batch of 32 rows
FullMeshScenario(c) ==
  /\ nclients = 1
  /\ tensor[c] = FullBatch
  /\ packed[c].status = "ok"

\* C7 as stated: one component per local device in local device order, of
\* rows/R rows, the slice at the sorted rank of the device's coordinate, and
\* two local devices get an identical component if and only if they have the
\* same batch coordinate
C7_IdenticalIffSameCoordinate ==
  \A c \in Clients :
    packed[c].status = "ok" =>
      /\ ComponentsAreRankedSlices(c)
      /\ \A i, j \in DOMAIN LocalDevices(c) :
           (packed[c].components[i] = packed[c].components[j])
             <=> (BatchCoordAt(c, i) = BatchCoordAt(c, j))

\* C7 amended: one component per local device in local device order, of
\* rows/R rows, the slice at the sorted rank of the device's coordinate; two
\* local devices get the same slice of the input if and only if they have
\* the same batch coordinate, and devices given the same slice hold
\* identical components (for the 4x2 mesh and 32 rows: four slices of 8
\* rows, identical within a replica)
C7_SameSliceIffSameCoordinate ==
  \A c \in Clients :
    packed[c].status = "ok" =>
      /\ ComponentsAreRankedSlices(c)
      /\ \A i, j \in DOMAIN LocalDevices(c) :
           /\ (SliceNumber(c, i) = SliceNumber(c, j))
                <=> (BatchCoordAt(c, i) = BatchCoordAt(c, j))
           /\ (BatchCoordAt(c, i) = BatchCoordAt(c, j)) =>
                packed[c].components[i] = packed[c].components[j]
      /\ FullMeshScenario(c) =>
           /\ Len(packed[c].components) = 8
           /\ \A i \in 1 .. 8 : Len(packed[c].components[i]) = 8
           /\ packed[c].rows = batch_size

\* C7 witness: the 4x2 mesh on one client has packed the 32-row batch
C7_Witness == \E c \in Clients : FullMeshScenario(c)

-----------------------------------------------------------------------------
(* Properties of mesh construction (SpecMain) *)

\* the compute mesh main asks for cannot be laid over the clients' devices
ComputeMeshDoesNotFit ==
  \/ NUM_GLOBAL_DEVICES % nclients # 0
  \/ navail < NUM_GLOBAL_DEVICES \div nclients

\* client c has done nothing past the construction of the compute mesh
StoppedAtStartup(c) ==
  /\ pc[c] = "failed"
  /\ ~ mesh[c].built
  /\ ~ client_mesh[c].built
  /\ Len(requests[c]) = 1
  /\ ncalls[c] = 0
  /\ ~ params[c].assigned
  /\ packed[c].status = "none"

\* C8: every mesh the program constructs (the 4x2 compute mesh over 8
\* devices, the one-dimensional clients mesh over num_clients devices) has
\* sizes that multiply to the device count it declares; a construction that
\* does not fit the available devices fails at startup and the client runs
\* no later step
C8_MeshProductMatches ==
  \A c \in Clients :
    /\ \A i \in DOMAIN requests[c] :
         Product(requests[c][i].dims) = requests[c][i].declared
    /\ mesh[c].built =>
         /\ mesh[c].dims = << <<"batch", 4>>, <<"model", 2>> >>
         /\ Product(mesh[c].dims) = mesh[c].num_global
         /\ mesh[c].num_global = 8
         /\ Len(mesh[c].local) * nclients = 8
    /\ client_mesh[c].built =>
         /\ client_mesh[c].dims = << <<"clients", nclients>> >>
         /\ Product(client_mesh[c].dims) = client_mesh[c].num_global
         /\ client_mesh[c].num_global = nclients
    /\ (ComputeMeshDoesNotFit /\ pc[c] # "start") => StoppedAtStartup(c)
    /\ pc[c] = "failed" => StoppedAtStartup(c)

\* C8 witness: two clients have constructed both of their meshes
C8_Witness ==
  /\ nclients = 2
  /\ \A c \in Clients : mesh[c].built /\ client_mesh[c].built

\* a run in which the construction fails: three clients cannot share 8
\* devices, and a client has stopped at startup
C8_FailureReached ==
  /\ nclients = 3
  /\ \E c \in Clients : StoppedAtStartup(c)

-----------------------------------------------------------------------------
(* Printing *)

\* lines 58-63, dprint: the line goes to the process's output with the
\* client's prefix
Dprint(c, out, kind, n, value) ==
  Append(out, [client |-> c, kind |-> kind, n |-> n, value |-> value])

\* rprint without the test of line 68: every client prints
RprintEveryClient(c, out, kind, n, value) == Dprint(c, out, kind, n, value)

\* lines 66-69, rprint: only the client whose dtensor.client_id() is 0 prints
Rprint(c, out, kind, n, value) ==
  IF c = 0 THEN Dprint(c, out, kind, n, value) ELSE out

-----------------------------------------------------------------------------
(* get_dataset: the synthetic data and its batching *)

vocab_size == 100
sequence_length == 10

\* line 125, np.random.RandomState(seed): a generator of its own whose
\* stream is fixed by the seed
RandomState(seed) == [ seed |-> seed, drawn |-> 0 ]

\* draw number k (from 0) of the stream of a seed.  A fixed mixing function
\* stands for the generator's arithmetic.
Stream(seed, k) ==
  ((seed + 1) * 7919 + (k + 1) * 104729 + (seed + 1) * (k + 1) * 31) % 65521

\* rng.randint(high, size=(rows, cols)): the next rows*cols draws, row by row
Randint2(rng, high, rows, cols) ==
  [ i \in 1 .. rows |->
      [ j \in 1 .. cols |->
          Stream(rng.seed, rng.drawn + (i - 1) * cols + (j - 1)) % high ] ]

\* rng.randint(high, size=(rows)): the next rows draws
Randint1(rng, high, rows) ==
  [ i \in 1 .. rows |-> Stream(rng.seed, rng.drawn + (i - 1)) % high ]

\* the generator after n more draws
Advance(rng, n) == [ rng EXCEPT !.drawn = @ + n ]

\* line 125 seeding the generator with the client id
DatasetSeedClientId(c) == c

\* line 125: the seed is the input_pipeline_id of pipeline_params
DatasetSeed(c) == params[c].input_pipeline_id

\* lines 133-134 with the product taken before the division
ClientLocalBatchSizeGrouped(m, p) ==
  batch_size \div (dim_size(m, BATCH_DIM) * p.num_local_replicas_in_sync)

\* lines 133-134 counting the local devices instead of the replicas
ClientLocalBatchSizePerDevice(m, p) ==
  (batch_size \div dim_size(m, BATCH_DIM)) * Len(m.local)

\* lines 133-134: batch_size // mesh.dim_size(BATCH_DIM) * the number of
\* local replicas (python evaluates // and * from the left)
ClientLocalBatchSize(m, p) ==
  (batch_size \div dim_size(m, BATCH_DIM)) * p.num_local_replicas_in_sync

\* lines 125-137: the generator, the four arrays drawn from it in order, and
\* the batch size of the client's dataset
Dataset(seed, m, p) ==
  LET rng0 == RandomState(seed)
      rng1 == Advance(rng0, batch_size * sequence_length)
      rng2 == Advance(rng1, batch_size * sequence_length)
      rng3 == Advance(rng2, batch_size * sequence_length)
  IN [ made |-> TRUE,
       rng |-> Advance(rng3, batch_size),
       word_id_data |-> Randint2(rng0, vocab_size, batch_size,
                                 sequence_length),
       mask_data |-> Randint2(rng1, num_classes, batch_size, sequence_length),
       type_id_data |-> Randint2(rng2, num_classes, batch_size,
                                 sequence_length),
       labels |-> Randint1(rng3, num_classes, batch_size),
       client_local_batch_size |-> ClientLocalBatchSize(m, p) ]

\* lines 135-137, from_tensor_slices(...).repeat().batch(size): the rows of
\* one array in the batch that starts at element pos of the repeated data
BatchRows(array, pos, size) ==
  [ i \in 1 .. size |-> array[((pos + i - 1) % Len(array)) + 1] ]

\* line 195, next(iterator): the next batch of the four arrays
NextBatch(ds, pos) ==
  [ word_id_data |-> BatchRows(ds.word_id_data, pos,
                               ds.client_local_batch_size),
    mask_data |-> BatchRows(ds.mask_data, pos, ds.client_local_batch_size),
    type_id_data |-> BatchRows(ds.type_id_data, pos,
                               ds.client_local_batch_size),
    labels |-> BatchRows(ds.labels, pos, ds.client_local_batch_size) ]

\* lines 122-137 and 164, the rest of get_dataset: print the params, seed
\* the generator, draw the data and build the batched dataset
MakeDataset(c) ==
  /\ pc[c] = "make_dataset"
  /\ stdout' = [stdout EXCEPT
                  ![c] = Dprint(c, @, "params",
                                params[c].input_pipeline_id, 0)]
  /\ dataset' = [dataset EXCEPT
                   ![c] = Dataset(DatasetSeed(c), mesh[c], params[c])]
  /\ pc' = [pc EXCEPT ![c] = "get_model"]
  /\ UNCHANGED <<nclients, device_type, navail, placement, requests, mesh,
                 client_mesh, nbuilds, ncalls, ngathered, arg, shards, frame,
                 result, params, tensor, packed, calls, model, train,
                 checkpoint, cpt>>

-----------------------------------------------------------------------------
(* get_model, train_step *)

RANDOM_SEED == 1337

\* the number of weights the model is given
MaxWeights == 2

\* lines 279 and 240-252: the weights as the initializers draw them from
\* the global seed, the same in every client
InitialWeights ==
  [ i \in 1 .. MaxWeights |-> Stream(RANDOM_SEED, i) % 97 ]

\* lines 255-256: rprint the layout of weights 1..n
RECURSIVE RprintLayouts(_, _, _)
RprintLayouts(c, out, n) ==
  IF n = 0 THEN out
  ELSE Rprint(c, RprintLayouts(c, out, n - 1), "layout", n, 0)

\* lines 288-291 and 217-258: build the model under the layout map, print
\* the layouts, create the optimizer
GetModel(c) ==
  /\ pc[c] = "get_model"
  /\ model' = [model EXCEPT
                 ![c] = [ built |-> TRUE, weights |-> InitialWeights,
                          iterations |-> 0 ]]
  /\ stdout' = [stdout EXCEPT ![c] = RprintLayouts(c, @, MaxWeights)]
  /\ pc' = [pc EXCEPT ![c] = "train"]
  /\ UNCHANGED <<nclients, device_type, navail, placement, requests, mesh,
                 client_mesh, nbuilds, ncalls, ngathered, arg, shards, frame,
                 result, params, tensor, packed, calls, dataset, train,
                 checkpoint, cpt>>

\* lines 170-172: the loss of the forward pass.  It is a value of the
\* replicated model state, the same in every client; a fixed function of
\* the weights stands for the network.
StepLoss(m) == 1 + ((m.weights[1] + m.iterations) % 5)

\* lines 174-175: the gradients applied by the optimizer
ApplyGradients(m) ==
  [ m EXCEPT
      !.weights = [ i \in DOMAIN m.weights |->
                      (m.weights[i] + StepLoss(m) * i + 1) % 97 ],
      !.iterations = @ + 1 ]

-----------------------------------------------------------------------------
(* train_model *)

steps_per_epoch == 10
num_epochs == 3

\* a train_step waits for the same step of every other client: the
\* collectives of the sharded computation need all the devices of the mesh
StepBarrier(c) ==
  \A c2 \in Clients : train[c2].nsteps >= train[c].nsteps

\* lines 187-191: announce the training, take the iterator, start the list
TrainStart(c) ==
  /\ pc[c] = "train"
  /\ stdout' = [stdout EXCEPT ![c] = Rprint(c, @, "started", 0, 0)]
  /\ train' = [train EXCEPT ![c].iterator = 0,
                            ![c].train_losses = << >>,
                            ![c].epoch = 0]
  /\ pc' = [pc EXCEPT ![c] = "epoch_start"]
  /\ UNCHANGED <<nclients, device_type, navail, placement, requests, mesh,
                 client_mesh, nbuilds, ncalls, ngathered, arg, shards, frame,
                 result, params, tensor, packed, calls, dataset, model,
                 checkpoint, cpt>>

\* line 193 left out: the accumulator carries over into the next epoch
EpochStartLossCarried(total) == total

\* line 193: total_loss = 0.00
EpochStartLoss(total) == 0

\* lines 192-194 and 214: the head of the epoch loop, and the return when
\* the epochs are used up
TrainEpochStart(c) ==
  /\ pc[c] = "epoch_start"
  /\ IF train[c].epoch < num_epochs
     THEN /\ train' = [train EXCEPT
                         ![c].total_loss = EpochStartLoss(@),
                         ![c].step = 0]
          /\ pc' = [pc EXCEPT ![c] = "fetch"]
     ELSE /\ pc' = [pc EXCEPT ![c] = "save"]
          /\ UNCHANGED train
  /\ UNCHANGED <<nclients, device_type, navail, placement, requests, mesh,
                 client_mesh, nbuilds, ncalls, ngathered, arg, shards, frame,
                 result, params, tensor, packed, calls, stdout, dataset,
                 model, checkpoint, cpt>>

\* line 195: pull the next batch
TrainFetch(c) ==
  /\ pc[c] = "fetch"
  /\ train' = [train EXCEPT
                 ![c].batch = NextBatch(dataset[c], train[c].iterator),
                 ![c].iterator = @ + dataset[c].client_local_batch_size]
  /\ pc' = [pc EXCEPT ![c] = "shard"]
  /\ UNCHANGED <<nclients, device_type, navail, placement, requests, mesh,
                 client_mesh, nbuilds, ncalls, ngathered, arg, shards, frame,
                 result, params, tensor, packed, calls, stdout, dataset,
                 model, checkpoint, cpt>>

\* the pack_fn calls of lines 196-199 that are made: each one after the
\* first only when those before it returned
PacksMade(outs) ==
  IF outs[1].status = "error" THEN 1
  ELSE IF outs[2].status = "error" THEN 2
  ELSE IF outs[3].status = "error" THEN 3
  ELSE 4

\* n entries "pack"
PackCalls(n) == [ i \in 1 .. n |-> "pack" ]

\* lines 196-200: pack the four tensors of the batch, then assert that the
\* labels have batch_size rows globally
TrainShard(c) ==
  /\ pc[c] = "shard"
  /\ \E outs \in { << ShardData(mesh[c], train[c].batch.word_id_data),
                        ShardData(mesh[c], train[c].batch.mask_data),
                        ShardData(mesh[c], train[c].batch.type_id_data),
                        ShardData(mesh[c], train[c].batch.labels) >> } :
     LET made == PacksMade(outs)
         kept(i, old) == IF i <= made THEN outs[i] ELSE old
     IN /\ train' = [train EXCEPT
                       ![c].d_word_id_data = kept(1, @),
                       ![c].d_mask_data = kept(2, @),
                       ![c].d_type_id_data = kept(3, @),
                       ![c].d_labels = kept(4, @)]
        /\ calls' = [calls EXCEPT ![c] = @ \o PackCalls(made)]
        /\ pc' = [pc EXCEPT
                    ![c] = IF outs[made].status = "error" THEN "failed"
                           ELSE IF outs[4].rows # batch_size
                                THEN "assertion_failed"
                           ELSE "compute"]
  /\ UNCHANGED <<nclients, device_type, navail, placement, requests, mesh,
                 client_mesh, nbuilds, ncalls, ngathered, arg, shards, frame,
                 result, params, tensor, packed, stdout, dataset, model,
                 checkpoint, cpt>>

\* lines 205-206: enter the scope of the mesh and call train_step
TrainStepEnter(c) ==
  /\ pc[c] = "compute"
  /\ train' = [train EXCEPT ![c].scope = mesh[c],
                            ![c].nsteps = @ + 1]
  /\ calls' = [calls EXCEPT ![c] = Append(@, "step")]
  /\ pc' = [pc EXCEPT ![c] = "step_wait"]
  /\ UNCHANGED <<nclients, device_type, navail, placement, requests, mesh,
                 client_mesh, nbuilds, ncalls, ngathered, arg, shards, frame,
                 result, params, tensor, packed, stdout, dataset, model,
                 checkpoint, cpt>>

\* lines 167-176: train_step computes the loss, applies the gradients and
\* returns the loss; step_losses keeps every loss returned so far
TrainStepReturn(c) ==
  /\ pc[c] = "step_wait"
  /\ StepBarrier(c)
  /\ train' = [train EXCEPT ![c].loss = StepLoss(model[c]),
                            ![c].step_losses = Append(@, StepLoss(model[c]))]
  /\ model' = [model EXCEPT ![c] = ApplyGradients(@)]
  /\ pc' = [pc EXCEPT ![c] = "accumulate"]
  /\ UNCHANGED <<nclients, device_type, navail, placement, requests, mesh,
                 client_mesh, nbuilds, ncalls, ngathered, arg, shards, frame,
                 result, params, tensor, packed, calls, stdout, dataset,
                 checkpoint, cpt>>

\* line 194 counting a step only from the second one on
StepsLeftOffByOne(step) == step + 1 <= steps_per_epoch

\* line 194, for _ in range(steps_per_epoch): another step follows step
\* number `step` (from 0)
StepsLeft(step) == step + 1 < steps_per_epoch

\* lines 205-208 and 194: add the loss to the accumulator, leave the scope,
\* go to the next step or to the end of the epoch
TrainAccumulate(c) ==
  /\ pc[c] = "accumulate"
  /\ train' = [train EXCEPT ![c].total_loss = @ + train[c].loss,
                            ![c].scope = NoMesh,
                            ![c].step = @ + 1]
  /\ pc' = [pc EXCEPT ![c] = IF StepsLeft(train[c].step) THEN "fetch"
                             ELSE "epoch_end"]
  /\ UNCHANGED <<nclients, device_type, navail, placement, requests, mesh,
                 client_mesh, nbuilds, ncalls, ngathered, arg, shards, frame,
                 result, params, tensor, packed, calls, stdout, dataset,
                 model, checkpoint, cpt>>

\* line 210: tf.reduce_mean(total_loss / steps_per_epoch), the quotient kept
\* as numerator and denominator
TrainLoss(total) == [ num |-> total, den |-> steps_per_epoch ]

\* lines 210-213: the mean loss of the epoch, printed and appended
TrainEpochEnd(c) ==
  /\ pc[c] = "epoch_end"
  /\ stdout' = [stdout EXCEPT
                  ![c] = Rprint(c, @, "epoch", train[c].epoch,
                                train[c].total_loss)]
  /\ train' = [train EXCEPT
                 ![c].train_losses = Append(@, TrainLoss(train[c].total_loss)),
                 ![c].epoch = @ + 1]
  /\ pc' = [pc EXCEPT ![c] = "epoch_start"]
  /\ UNCHANGED <<nclients, device_type, navail, placement, requests, mesh,
                 client_mesh, nbuilds, ncalls, ngathered, arg, shards, frame,
                 result, params, tensor, packed, calls, dataset, model,
                 checkpoint, cpt>>

-----------------------------------------------------------------------------
(* main: checkpoint *)

\* line 298: os.path.join(args.prefix, "bert-checkpoint-1/cpt")
CheckpointPrefix == [ prefix |-> "bert-checkpoint-1/cpt", count |-> 0 ]

\* the realized path of a save: the prefix and the number of the save
SavePath(prefix, n) == [ prefix EXCEPT !.count = n ]

\* what a save by client c writes under a path: the client's view of every
\* weight of the root object, and the mesh it was saved on
CheckpointWrite(files, path, c, m, on) ==
  files \cup { [ path |-> path, client |-> c, weights |-> m.weights,
                 dims |-> on.dims ] }

\* the files of client c under a path
CheckpointRead(files, path, c) ==
  { f \in files : f.path = path /\ f.client = c }

\* a save returns once every client has written its part
SaveBarrier(c) ==
  \A c2 \in Clients :
    CheckpointRead(checkpoint, SavePath(CheckpointPrefix,
                                        cpt[c].save_counter), c2) # { }

\* lines 297-298: create the DTensorCheckpoint of the model on the mesh and
\* write the checkpoint
MainSave(c) ==
  /\ pc[c] = "save"
  /\ cpt' = [cpt EXCEPT ![c].created = TRUE,
                        ![c].mesh = mesh[c],
                        ![c].save_counter = @ + 1,
                        ![c].at_save = model[c].weights]
  /\ checkpoint' = CheckpointWrite(checkpoint,
                                   SavePath(CheckpointPrefix,
                                            cpt[c].save_counter + 1),
                                   c, model[c], mesh[c])
  /\ calls' = [calls EXCEPT ![c] = Append(@, "save")]
  /\ pc' = [pc EXCEPT ![c] = "save_wait"]
  /\ UNCHANGED <<nclients, device_type, navail, placement, requests, mesh,
                 client_mesh, nbuilds, ncalls, ngathered, arg, shards, frame,
                 result, params, tensor, packed, stdout, dataset, model,
                 train>>

\* line 298: save returns the realized path, kept in saved_path
MainSaveReturn(c) ==
  /\ pc[c] = "save_wait"
  /\ SaveBarrier(c)
  /\ cpt' = [cpt EXCEPT
               ![c].saved_path = SavePath(CheckpointPrefix,
                                          cpt[c].save_counter)]
  /\ pc' = [pc EXCEPT ![c] = "restore"]
  /\ UNCHANGED <<nclients, device_type, navail, placement, requests, mesh,
                 client_mesh, nbuilds, ncalls, ngathered, arg, shards, frame,
                 result, params, tensor, packed, calls, stdout, dataset,
                 model, train, checkpoint>>

\* line 301 passing the path given to save instead of the one it returned
RestoreArgumentPrefix(c) == CheckpointPrefix

\* line 301: the argument of cpt.restore is saved_path
RestoreArgument(c) == cpt[c].saved_path

\* line 301: restore the weights of the root object from the checkpoint at
\* the given path, on the mesh of the DTensorCheckpoint
MainRestore(c) ==
  /\ pc[c] = "restore"
  /\ calls' = [calls EXCEPT ![c] = Append(@, "restore")]
  /\ cpt' = [cpt EXCEPT ![c].restore_arg = RestoreArgument(c),
                        ![c].restore_mesh = cpt[c].mesh]
  /\ LET found == CheckpointRead(checkpoint, RestoreArgument(c), c)
     IN IF found = { } \/ \E f \in found : f.dims # cpt[c].mesh.dims
        THEN /\ pc' = [pc EXCEPT ![c] = "failed"]
             /\ UNCHANGED model
        ELSE /\ model' = [model EXCEPT
                            ![c].weights = (CHOOSE f \in found : TRUE).weights]
             /\ pc' = [pc EXCEPT ![c] = "done"]
  /\ UNCHANGED <<nclients, device_type, navail, placement, requests, mesh,
                 client_mesh, nbuilds, ncalls, ngathered, arg, shards, frame,
                 result, params, tensor, packed, stdout, dataset, train,
                 checkpoint>>

-----------------------------------------------------------------------------
(* main from process start to the restored checkpoint *)

\* the largest client count of the runs with every interleaving
MaxRunClients == 4

InitRun ==
  /\ nclients \in { n \in EvenClientCounts : n <= MaxRunClients }
  /\ device_type = "CPU"
  /\ navail = VirtualCpus
  /\ placement = ConsecutivePlacement(nclients)
  /\ pc = [ c \in Clients |-> "start" ]
  /\ Fresh

NextRun ==
  \/ \E c \in Clients : MainCreateMesh(c)
  \/ \E c \in Clients : GetPipelineParamsCall(c)
  \/ \E c \in Clients : UniqueAcrossClientsRelayout(c)
  \/ \E c \in Clients : GetPipelineParamsReturn(c)
  \/ \E c \in Clients : MakeDataset(c)
  \/ \E c \in Clients : GetModel(c)
  \/ \E c \in Clients : TrainStart(c)
  \/ \E c \in Clients : TrainEpochStart(c)
  \/ \E c \in Clients : TrainFetch(c)
  \/ \E c \in Clients : TrainShard(c)
  \/ \E c \in Clients : TrainStepEnter(c)
  \/ \E c \in Clients : TrainStepReturn(c)
  \/ \E c \in Clients : TrainAccumulate(c)
  \/ \E c \in Clients : TrainEpochEnd(c)
  \/ \E c \in Clients : MainSave(c)
  \/ \E c \in Clients : MainSaveReturn(c)
  \/ \E c \in Clients : MainRestore(c)

SpecRun == InitRun /\ [][NextRun]_vars

-----------------------------------------------------------------------------
(* the whole run over every placement of the devices *)

\* client c has a step to take: it has not stopped, and what it waits for
\* has arrived
CanStep(c) ==
  /\ pc[c] \notin { "done", "failed", "assertion_failed" }
  /\ pc[c] = "uac_relayout" =>
       \A c2 \in Clients : \E sh \in Range(shards[c2]) : sh.round = ncalls[c]
  /\ pc[c] = "step_wait" => StepBarrier(c)
  /\ pc[c] = "save_wait" => SaveBarrier(c)

\* every way to split the devices of the mesh into n equal groups, each
\* split placed on the clients in the order of the groups' lowest devices
PlacementsUpToRenaming(n) ==
  { [ c \in 0 .. (n - 1) |-> blocks[c + 1] ] :
      blocks \in Blocks(Devices, NUM_GLOBAL_DEVICES \div n) }

\* The clients interact only at the collectives, so the order in which
\* their local steps interleave does not change what any of them computes.
\* This specification follows one order: the lowest client that can take a
\* step takes it.
Turn(c) == \A c2 \in Clients : c2 < c => ~ CanStep(c2)

NextPlacements ==
  \/ \E c \in Clients : Turn(c) /\ GetPipelineParamsCall(c)
  \/ \E c \in Clients : Turn(c) /\ UniqueAcrossClientsRelayout(c)
  \/ \E c \in Clients : Turn(c) /\ GetPipelineParamsReturn(c)
  \/ \E c \in Clients : Turn(c) /\ MakeDataset(c)
  \/ \E c \in Clients : Turn(c) /\ GetModel(c)
  \/ \E c \in Clients : Turn(c) /\ TrainStart(c)
  \/ \E c \in Clients : Turn(c) /\ TrainEpochStart(c)
  \/ \E c \in Clients : Turn(c) /\ TrainFetch(c)
  \/ \E c \in Clients : Turn(c) /\ TrainShard(c)
  \/ \E c \in Clients : Turn(c) /\ TrainStepEnter(c)
  \/ \E c \in Clients : Turn(c) /\ TrainStepReturn(c)
  \/ \E c \in Clients : Turn(c) /\ TrainAccumulate(c)
  \/ \E c \in Clients : Turn(c) /\ TrainEpochEnd(c)
  \/ \E c \in Clients : Turn(c) /\ MainSave(c)
  \/ \E c \in Clients : Turn(c) /\ MainSaveReturn(c)
  \/ \E c \in Clients : Turn(c) /\ MainRestore(c)

\* Every client has constructed the compute mesh and is about to call
\* get_dataset.  All clients run the same program and differ only in what
\* rprint prints, so a placement stands for all those that rename its
\* clients.
InitPlacements ==
  /\ nclients \in EvenClientCounts
  /\ device_type = "CPU"
  /\ navail = VirtualCpus
  /\ placement \in PlacementsUpToRenaming(nclients)
  /\ pc = [ c \in Clients |-> "get_dataset" ]
  /\ requests = [ c \in Clients |->
                    << [dims |-> mesh_dims,
                        declared |-> NUM_GLOBAL_DEVICES] >> ]
  /\ mesh = [ c \in Clients |->
                CreateDistributedMesh(mesh_dims, NUM_GLOBAL_DEVICES,
                                      navail, placement[c]) ]
  /\ client_mesh = [ c \in Clients |-> NoMesh ]
  /\ nbuilds = [ c \in Clients |-> 0 ]
  /\ ncalls = [ c \in Clients |-> 0 ]
  /\ ngathered = [ c \in Clients |-> 0 ]
  /\ arg = [ c \in Clients |-> 0 ]
  /\ shards = [ c \in Clients |-> << >> ]
  /\ frame = [ c \in Clients |-> NoFrame ]
  /\ result = [ c \in Clients |-> << >> ]
  /\ params = [ c \in Clients |-> NoParams ]
  /\ tensor = [ c \in Clients |-> << >> ]
  /\ packed = [ c \in Clients |-> NoDTensor ]
  /\ calls = [ c \in Clients |-> << "mesh" >> ]
  /\ FreshTraining

SpecPlacements == InitPlacements /\ [][NextPlacements]_vars

-----------------------------------------------------------------------------
(* Properties of train_model (SpecRun) *)

\* train_model has returned to main
Returned(c) == pc[c] \in { "save", "save_wait", "restore", "done" }

\* the number of the step of the loop the client is in, counted over the
\* epochs
LoopIndex(c) == train[c].epoch * steps_per_epoch + train[c].step

\* the positions a client may move to from a position of train_model
PhaseSuccessors(p) ==
  CASE p = "train" -> { "epoch_start" }
    [] p = "epoch_start" -> { "fetch", "save" }
    [] p = "fetch" -> { "shard" }
    [] p = "shard" -> { "compute" }
    [] p = "compute" -> { "step_wait" }
    [] p = "step_wait" -> { "accumulate" }
    [] p = "accumulate" -> { "fetch", "epoch_end" }
    [] p = "epoch_end" -> { "epoch_start" }
    [] OTHER -> { }

TrainPositions ==
  { "train", "epoch_start", "fetch", "shard", "compute", "step_wait",
    "accumulate", "epoch_end" }

\* C11: in train_model a client moves only along Idle -> (FetchBatch ->
\* Shard -> ComputeStep -> Accumulate) per step -> EpochComplete per epoch
\* -> Done; step number i of the loop is the i-th train_step the client
\* calls, so no step is computed twice; a train_step runs inside the scope
\* of the compute mesh; and when train_model returns, the client has run
\* exactly num_epochs * steps_per_epoch train_steps.
C11_TrainStateMachine ==
  /\ [](\A c \in Clients :
          /\ pc[c] \in { "fetch", "shard", "compute" } =>
               /\ train[c].nsteps = LoopIndex(c)
               /\ model[c].iterations = LoopIndex(c)
               /\ train[c].step < steps_per_epoch
               /\ train[c].epoch < num_epochs
          /\ pc[c] = "step_wait" =>
               /\ train[c].nsteps = LoopIndex(c) + 1
               /\ model[c].iterations = LoopIndex(c)
          /\ pc[c] = "accumulate" =>
               /\ train[c].nsteps = LoopIndex(c) + 1
               /\ model[c].iterations = LoopIndex(c) + 1
          /\ pc[c] \in { "step_wait", "accumulate" } =>
               /\ mesh[c].built
               /\ train[c].scope = mesh[c]
          /\ pc[c] = "epoch_end" => train[c].step = steps_per_epoch
          /\ Returned(c) =>
               /\ train[c].nsteps = num_epochs * steps_per_epoch
               /\ model[c].iterations = num_epochs * steps_per_epoch
               /\ train[c].epoch = num_epochs)
  /\ [][\A c \in Clients :
          (pc[c] \in TrainPositions /\ pc'[c] # pc[c]) =>
             pc'[c] \in PhaseSuccessors(pc[c])]_vars

\* a client has gone through the whole of train_model
C11_Witness ==
  \E c \in Clients :
    /\ pc[c] = "save"
    /\ train[c].nsteps = num_epochs * steps_per_epoch
    /\ Len(train[c].train_losses) = num_epochs

-----------------------------------------------------------------------------
(* Properties of the progress lines (SpecRun) *)

\* the positions in the output of client c of the loss line of epoch e
EpochLines(c, e) ==
  { i \in DOMAIN stdout[c] :
      stdout[c][i].kind = "epoch" /\ stdout[c][i].n = e }

\* client c has finished epoch e: its last step is done and lines 210-213
\* have run
EpochFinished(c, e) == train[c].epoch > e

\* the loss lines of epoch e in the output of all the clients together
EpochLinesInTotal(e) ==
  UNION { { << c, i >> : i \in EpochLines(c, e) } : c \in Clients }

\* C12: whatever the number of clients, the loss line of an epoch is in the
\* output of all the clients together exactly once as soon as client 0 has
\* finished that epoch and not at all before; it is printed by client 0,
\* after the steps_per_epoch steps of the epoch, and no other client ever
\* prints one.
C12_LossLineOnceByLeader ==
  \A e \in 0 .. (num_epochs - 1) :
    /\ \A c \in Clients \ {0} : EpochLines(c, e) = { }
    /\ Cardinality(EpochLinesInTotal(e)) = IF EpochFinished(0, e) THEN 1 ELSE 0
    /\ \A i \in EpochLines(0, e) :
         /\ stdout[0][i].client = 0
         /\ train[0].nsteps >= (e + 1) * steps_per_epoch
         /\ stdout[0][i].value = train[0].train_losses[e + 1].num

\* several clients have finished the training and client 0 has printed the
\* line of the last epoch
C12_Witness ==
  /\ nclients > 1
  /\ \A c \in Clients : Returned(c)
  /\ EpochLines(0, num_epochs - 1) # { }

-----------------------------------------------------------------------------
(* Properties of the checkpoint (SpecRun) *)

\* client c has called cpt.restore
RestoreCalled(c) == cpt[c].restore_arg # NoPath

\* C14: a client calls restore only when its save has returned; the
\* argument of restore is exactly the path that save returned; restore runs
\* on the mesh the checkpoint was saved on, which is the compute mesh; and
\* when restore has returned, every weight of the model has the value it
\* had when save was called.
C14_CheckpointRoundTrip ==
  \A c \in Clients :
    /\ pc[c] = "done" => RestoreCalled(c)
    /\ RestoreCalled(c) =>
         /\ cpt[c].saved_path # NoPath
         /\ cpt[c].saved_path = SavePath(CheckpointPrefix, cpt[c].save_counter)
         /\ cpt[c].restore_arg = cpt[c].saved_path
         /\ cpt[c].restore_mesh = cpt[c].mesh
         /\ cpt[c].mesh = mesh[c]
         /\ pc[c] = "done"
         /\ model[c].weights = cpt[c].at_save

\* a client has restored weights that the training had changed
C14_Witness ==
  \E c \in Clients :
    /\ pc[c] = "done"
    /\ RestoreCalled(c)
    /\ model[c].weights # InitialWeights
    /\ model[c].iterations = num_epochs * steps_per_epoch

-----------------------------------------------------------------------------
(* Properties of the consensus call within the run (SpecRun) *)

\* the positions of the calls of one kind in the sequence of collective
\* calls of client c
CallPositions(c, kind) == { i \in DOMAIN calls[c] : calls[c][i] = kind }

\* client c has begun to train: it has pulled a batch or made a step
TrainingBegun(c) ==
  pc[c] \in { "shard", "compute", "step_wait", "accumulate", "epoch_end" }
    \/ train[c].nsteps > 0

\* C15: a client calls unique_across_clients at most once, and exactly once
\* by the time it trains; the call comes after the construction of the
\* compute mesh and before every pack and step of the training; it has the
\* same position in the sequence of collective calls of every client; and
\* once pipeline_params is assigned it never changes.
C15_ConsensusOncePerRun ==
  /\ [](\A c \in Clients :
          /\ ncalls[c] <= 1
          /\ Cardinality(CallPositions(c, "consensus")) = ncalls[c]
          /\ ncalls[c] = 1 => mesh[c].built
          /\ (TrainingBegun(c) \/ pc[c] = "done") =>
               /\ ncalls[c] = 1
               /\ params[c].assigned
          /\ \A i \in CallPositions(c, "consensus") :
               /\ \E j \in CallPositions(c, "mesh") : j < i
               /\ \A j \in CallPositions(c, "pack") \cup
                            CallPositions(c, "step") : i < j
               /\ \A c2 \in Clients :
                    CallPositions(c2, "consensus") \subseteq { i })
  /\ [][\A c \in Clients :
          params[c].assigned => params'[c] = params[c]]_vars

\* several clients have run to the end, each with its one consensus call
C15_Witness ==
  /\ nclients > 1
  /\ \A c \in Clients :
       /\ pc[c] = "done"
       /\ ncalls[c] = 1
       /\ CallPositions(c, "consensus") # { }

-----------------------------------------------------------------------------
(* Properties of the batches over every placement (SpecPlacements) *)

\* the client has packed the tensors of a batch and passed the assertion
Packed(c) == pc[c] \in { "compute", "step_wait", "accumulate" }

\* the rows of the component of each local device of a packed tensor
ComponentRows(t) == { Len(t.components[i]) : i \in DOMAIN t.components }

\* C16: for every placement of the devices of the 4x2 mesh on the clients,
\* at every step of every client the assertion of line 200 holds: the
\* packed labels have batch_size rows globally, which is the rows of the
\* component of each local device times the size of the batch dimension.
C16_AssertionHolds ==
  \A c \in Clients :
    /\ pc[c] # "assertion_failed"
    /\ Packed(c) =>
         /\ train[c].d_labels.status = "ok"
         /\ train[c].d_labels.rows = batch_size
         /\ \A r \in ComponentRows(train[c].d_labels) :
              r * dim_size(mesh[c], BATCH_DIM) = batch_size

\* a client whose devices lie in three rows of the mesh has passed the
\* assertion in its second step
C16_Witness ==
  \E c \in Clients :
    /\ ReplicaCount(c) = 3
    /\ pc[c] = "compute"
    /\ train[c].nsteps = 1

\* the four arrays of a dataset
DataArrays(ds) ==
  << ds.word_id_data, ds.mask_data, ds.type_id_data, ds.labels >>

\* C17: two clients with the same input_pipeline_id have identical word-id,
\* mask, type-id and label arrays, whatever their client ids, devices and
\* number of local replicas.
C17_DataBySeedAlone ==
  \A c, c2 \in Clients :
    ( /\ dataset[c].made
      /\ dataset[c2].made
      /\ params[c].input_pipeline_id = params[c2].input_pipeline_id )
    => /\ DataArrays(dataset[c]) = DataArrays(dataset[c2])
       /\ dataset[c].rng = dataset[c2].rng

\* two different clients with the same input_pipeline_id have made their
\* data, and a third one with another id has made other data
C17_Witness ==
  \E c, c2, c3 \in Clients :
    /\ c # c2
    /\ dataset[c].made /\ dataset[c2].made /\ dataset[c3].made
    /\ params[c].input_pipeline_id = params[c2].input_pipeline_id
    /\ params[c].input_pipeline_id # params[c3].input_pipeline_id
    /\ DataArrays(dataset[c]) # DataArrays(dataset[c3])

\* the tensors of the batch a client holds
BatchArrays(b) ==
  << b.word_id_data, b.mask_data, b.type_id_data, b.labels >>

\* the packed tensors a client holds
PackedTensors(c) ==
  << train[c].d_word_id_data, train[c].d_mask_data,
     train[c].d_type_id_data, train[c].d_labels >>

\* C19: for every placement, the batch size of a client's dataset and the
\* rows of every batch it pulls are (batch_size // size of the batch
\* dimension) * R, where R is the number of distinct batch coordinates of
\* the client's devices, the number shard_data splits by; no pack_fn call
\* fails and no client stops with an error.
C19_SplitAlwaysDivides ==
  \A c \in Clients :
    LET rows == (batch_size \div BATCH_DIM_SIZE) * ReplicaCount(c) IN
    /\ pc[c] # "failed"
    /\ dataset[c].made =>
         /\ ReplicaCount(c) = Cardinality(LocalReplicas(mesh[c]))
         /\ dataset[c].client_local_batch_size = rows
    /\ train[c].batch # NoBatch =>
         \A k \in 1 .. 4 :
           LET t == BatchArrays(train[c].batch)[k] IN
           /\ Len(t) = rows
           /\ TfSplit(t, Cardinality(LocalReplicas(mesh[c]))).ok
    /\ \A k \in 1 .. 4 : PackedTensors(c)[k].status # "error"

\* a client whose devices lie in three rows of the mesh has pulled a batch
\* of 24 rows and packed it
C19_Witness ==
  \E c \in Clients :
    /\ ReplicaCount(c) = 3
    /\ Len(train[c].batch.labels) = 3 * (batch_size \div BATCH_DIM_SIZE)
    /\ train[c].d_word_id_data.status = "ok"
    /\ train[c].d_labels.status = "ok"

-----------------------------------------------------------------------------
(* Properties of the loss accumulator (SpecRun) *)

\* the sum of the losses that train_steps first .. last of client c returned
RECURSIVE SumOfLosses(_, _, _)
SumOfLosses(c, first, last) ==
  IF first > last THEN 0
  ELSE train[c].step_losses[first] + SumOfLosses(c, first + 1, last)

\* the sum of the losses of the steps of epoch e (from 0) alone
EpochSum(c, e) ==
  SumOfLosses(c, e * steps_per_epoch + 1, (e + 1) * steps_per_epoch)

\* C18: the accumulator is zero when the first step of an epoch begins and
\* holds the losses of the steps of the running epoch alone; entry e of
\* train_losses is the sum of the steps_per_epoch losses of epoch e over
\* steps_per_epoch; and train_losses has num_epochs entries when
\* train_model has returned.
C18_LossPerEpoch ==
  \A c \in Clients :
    /\ (pc[c] = "fetch" /\ train[c].step = 0) => train[c].total_loss = 0
    /\ pc[c] \in { "fetch", "shard", "compute", "step_wait", "epoch_end" } =>
         train[c].total_loss =
           SumOfLosses(c, train[c].epoch * steps_per_epoch + 1, LoopIndex(c))
    /\ \A e \in 0 .. (Len(train[c].train_losses) - 1) :
         train[c].train_losses[e + 1] =
           [ num |-> EpochSum(c, e), den |-> steps_per_epoch ]
    /\ Len(train[c].train_losses) <= num_epochs
    /\ Returned(c) => Len(train[c].train_losses) = num_epochs

\* train_model has returned the losses of its epochs, none of them zero, so
\* that a loss carried into the next epoch would show
C18_Witness ==
  \E c \in Clients :
    /\ Returned(c)
    /\ Len(train[c].train_losses) = num_epochs
    /\ \A e \in 1 .. num_epochs : train[c].train_losses[e].num > 0
    /\ Len(train[c].step_losses) = num_epochs * steps_per_epoch

-----------------------------------------------------------------------------
(* Termination of the run (SpecRunFair) *)

\* the steps of client c
ClientStep(c) ==
  /\ c \in Clients
  /\ \/ MainCreateMesh(c)
     \/ GetPipelineParamsCall(c)
     \/ UniqueAcrossClientsRelayout(c)
     \/ GetPipelineParamsReturn(c)
     \/ MakeDataset(c)
     \/ GetModel(c)
     \/ TrainStart(c)
     \/ TrainEpochStart(c)
     \/ TrainFetch(c)
     \/ TrainShard(c)
     \/ TrainStepEnter(c)
     \/ TrainStepReturn(c)
     \/ TrainAccumulate(c)
     \/ TrainEpochEnd(c)
     \/ MainSave(c)
     \/ MainSaveReturn(c)
     \/ MainRestore(c)

\* the largest client count of the runs with fair scheduling
MaxFairClients == 2

InitRunFair ==
  /\ nclients \in { n \in EvenClientCounts : n <= MaxFairClients }
  /\ device_type = "CPU"
  /\ navail = VirtualCpus
  /\ placement = ConsecutivePlacement(nclients)
  /\ pc = [ c \in Clients |-> "start" ]
  /\ Fresh

\* Every client is a process of its own that runs main() to the end: a
\* client that can take a step eventually takes one.
SpecRunFair ==
  /\ InitRunFair
  /\ [][NextRun]_vars
  /\ \A c \in 0 .. (MaxFairClients - 1) : WF_vars(ClientStep(c))

\* s is a prefix of t
IsPrefix(s, t) == Len(s) <= Len(t) /\ SubSeq(t, 1, Len(s)) = s

\* the collective calls of one complete run of main(): the two meshes, the
\* consensus, four packs and a step for each training step, save, restore
RECURSIVE StepCalls(_)
StepCalls(n) ==
  IF n = 0 THEN << >>
  ELSE << "pack", "pack", "pack", "pack", "step" >> \o StepCalls(n - 1)

CompleteCalls ==
  << "mesh", "clients_mesh", "consensus" >>
    \o StepCalls(num_epochs * steps_per_epoch) \o << "save", "restore" >>

\* C20: at every moment the collective calls any client has issued are a
\* prefix of the one sequence mesh, clients mesh, consensus, (4 packs, step)
\* x 30, save, restore, so no client branches around a collective; and when
\* every client keeps taking the steps it can take, every client eventually
\* has restored the checkpoint and is done, so the run does not deadlock.
C20_AllClientsTerminate ==
  /\ [](\A c \in Clients : IsPrefix(calls[c], CompleteCalls))
  /\ <>(\A c \in Clients : pc[c] = "done" /\ calls[c] = CompleteCalls)

\* several clients are done; the last of them had to wait for the others
\* at the collectives
C20_Witness ==
  /\ nclients > 1
  /\ \A c \in Clients : pc[c] = "done" /\ calls[c] = CompleteCalls

====
